---------------------------- MODULE Spec2Model ----------------------------
(***************************************************************************)
(* Model of the two cache-busting scripts of the repository:               *)
(*   bump-version.py     (fixed targets index.html and sw.js)              *)
(*   update_versions.py  (directory scan, optional dry run)                *)
(* File contents are sequences of one-character strings; the regular       *)
(* expressions of the scripts are matched character by character.          *)
(***************************************************************************)
EXTENDS Integers, Sequences, FiniteSets, TLC

(***************************************************************************)
(* Bounds of the model.                                                    *)
(***************************************************************************)
MaxRuns == 2
MaxFaults == 1
MaxPieces == 2

(***************************************************************************)
(* Characters and character classes of Python's re module (ASCII part).    *)
(***************************************************************************)
Digits == {"0", "1", "2", "3", "4", "5", "6", "7", "8", "9"}
Whitespace == {" ", "\t", "\n"}
Quotes == {"'", "\""}
\* the negated class of VERSION_PATTERN: [^\s"')\]>]
VersionStop == Whitespace \cup {"\"", "'", ")", "]", ">"}

\* Python's None, among values that are sequences
None == <<"None">>
NoMatch == [ok |-> FALSE, end |-> 0, gs |-> 0, ge |-> 0]

\* the literal lit occurs in s at position i
Lit(s, i, lit) ==
    /\ i + Len(lit) - 1 <= Len(s)
    /\ SubSeq(s, i, i + Len(lit) - 1) = lit

\* the least element of a set of positions, 0 for the empty set
MinOrZero(S) == IF S = {} THEN 0 ELSE CHOOSE q \in S : \A r \in S : q <= r

\* greedy run of characters of class C from position i: the first position
\* at or after i whose character is not in C (Len(s) + 1 at the end)
SkipIn(s, i, C) ==
    IF i > Len(s) THEN i
    ELSE MinOrZero({j \in i..Len(s) : s[j] \notin C} \cup {Len(s) + 1})

\* greedy run of characters outside class C from position i
SkipNotIn(s, i, C) ==
    IF i > Len(s) THEN i
    ELSE MinOrZero({j \in i..Len(s) : s[j] \in C} \cup {Len(s) + 1})

CharIn(s, i, C) == i <= Len(s) /\ s[i] \in C

\* int(digits): decimal value, leading zeros allowed
RECURSIVE IntOf(_)
IntOf(ds) ==
    IF ds = <<>> THEN 0
    ELSE 10 * IntOf(SubSeq(ds, 1, Len(ds) - 1))
         + (CHOOSE d \in 0..9 :
              <<"0", "1", "2", "3", "4", "5", "6", "7", "8", "9">>[d + 1]
                 = ds[Len(ds)])

\* str(n) for n >= 0
RECURSIVE StrOf(_)
StrOf(n) ==
    LET d == <<"0", "1", "2", "3", "4", "5", "6", "7", "8", "9">>[(n % 10) + 1]
    IN  IF n < 10 THEN <<d>> ELSE StrOf(n \div 10) \o <<d>>

(***************************************************************************)
(* Literals of the patterns and replacement templates.                     *)
(***************************************************************************)
QV == <<"?", "v", "=">>
ConstVersionLit ==
    <<"c", "o", "n", "s", "t", " ", "V", "E", "R", "S", "I", "O", "N", " ",
      "=", " ">>
ConstCacheLit ==
    <<"c", "o", "n", "s", "t", " ", "C", "A", "C", "H", "E", "_", "N", "A",
      "M", "E", " ", "=", " ">>
PadelLit ==
    <<"p", "a", "d", "e", "l", "-", "m", "e", "x", "i", "c", "a", "n", "o",
      "-", "v">>
CacheNameLit == <<"C", "A", "C", "H", "E", "_", "N", "A", "M", "E">>
PaddleLit ==
    <<"p", "a", "d", "d", "l", "e", "-", "m", "e", "x", "i", "c", "a", "n",
      "-", "v">>
\* \d{14}
TimestampLen == 14

(***************************************************************************)
(* The five regular expressions.  A match at position i is a record: ok,   *)
(* end (first position after the match), and gs..ge-1 the digit group.     *)
(* Each pattern is matched left to right; the greedy runs never give back  *)
(* a character, because what follows a run is outside its class.           *)
(***************************************************************************)
VERSION_PATTERN == "VERSION_PATTERN"
SW_CACHE_PATTERN == "SW_CACHE_PATTERN"
QueryPattern == "QueryPattern"
VersionConstPattern == "VersionConstPattern"
CacheNamePattern == "CacheNamePattern"

MatchIf(ok, end, gs, ge) ==
    IF ok THEN [ok |-> TRUE, end |-> end, gs |-> gs, ge |-> ge] ELSE NoMatch

\* update_versions.py: \?v=[^\s"')\]>]+   (e: the end of the greedy run)
VersionRun(i, e) == MatchIf(e > i + 3, e, i + 3, e)

MatchVersionPattern(s, i) ==
    IF Lit(s, i, QV) THEN VersionRun(i, SkipNotIn(s, i + 3, VersionStop))
    ELSE NoMatch

\* update_versions.py: CACHE_NAME\s*=\s*['"]paddle-mexican-v(\d+)['"]
\* (d: the first digit, e: the end of \d+)
SwCacheDigits(s, d, e) ==
    MatchIf(e > d /\ CharIn(s, e, Quotes), e + 1, d, e)

\* (b: the position after \s*=\s*)
SwCacheQuote(s, b) ==
    IF CharIn(s, b, Quotes) /\ Lit(s, b + 1, PaddleLit)
    THEN SwCacheDigits(s, b + 1 + Len(PaddleLit),
                       SkipIn(s, b + 1 + Len(PaddleLit), Digits))
    ELSE NoMatch

\* (a: the position after CACHE_NAME\s*)
SwCacheEquals(s, a) ==
    IF CharIn(s, a, {"="}) THEN SwCacheQuote(s, SkipIn(s, a + 1, Whitespace))
    ELSE NoMatch

MatchSwCachePattern(s, i) ==
    IF Lit(s, i, CacheNameLit)
    THEN SwCacheEquals(s, SkipIn(s, i + Len(CacheNameLit), Whitespace))
    ELSE NoMatch

\* bump-version.py: \?v=(\d{14})   (e: the end of the digits after ?v=)
QueryDigits(i, e) ==
    MatchIf(e - (i + 3) >= TimestampLen, i + 3 + TimestampLen, i + 3,
            i + 3 + TimestampLen)

MatchQueryPattern(s, i) ==
    IF Lit(s, i, QV) THEN QueryDigits(i, SkipIn(s, i + 3, Digits))
    ELSE NoMatch

\* bump-version.py: (const VERSION = ['"])(\d{14})(['"];)
\* (d: the first digit, e: the end of the digits)
VersionConstDigits(s, d, e) ==
    MatchIf(/\ e - d = TimestampLen
            /\ CharIn(s, e, Quotes)
            /\ CharIn(s, e + 1, {";"}),
            e + 2, d, e)

MatchVersionConstPattern(s, i) ==
    IF Lit(s, i, ConstVersionLit) /\ CharIn(s, i + Len(ConstVersionLit), Quotes)
    THEN VersionConstDigits(s, i + Len(ConstVersionLit) + 1,
                            SkipIn(s, i + Len(ConstVersionLit) + 1, Digits))
    ELSE NoMatch

\* bump-version.py: (const CACHE_NAME = ['"]padel-mexicano-v)(\d+)(['"];)
CacheNameDigits(s, d, e) ==
    MatchIf(/\ e > d
            /\ CharIn(s, e, Quotes)
            /\ CharIn(s, e + 1, {";"}),
            e + 2, d, e)

CacheNameStart == Len(ConstCacheLit) + 1 + Len(PadelLit)

MatchCacheNamePattern(s, i) ==
    IF /\ Lit(s, i, ConstCacheLit)
       /\ CharIn(s, i + Len(ConstCacheLit), Quotes)
       /\ Lit(s, i + Len(ConstCacheLit) + 1, PadelLit)
    THEN CacheNameDigits(s, i + CacheNameStart,
                         SkipIn(s, i + CacheNameStart, Digits))
    ELSE NoMatch

Match(pat, s, i) ==
    CASE pat = VERSION_PATTERN -> MatchVersionPattern(s, i)
      [] pat = SW_CACHE_PATTERN -> MatchSwCachePattern(s, i)
      [] pat = QueryPattern -> MatchQueryPattern(s, i)
      [] pat = VersionConstPattern -> MatchVersionConstPattern(s, i)
      [] pat = CacheNamePattern -> MatchCacheNamePattern(s, i)

(***************************************************************************)
(* re.search, re.findall, re.sub, re.subn: the scan takes the leftmost     *)
(* match at or after the current position, then goes on after its end.     *)
(***************************************************************************)
\* the positions at which the pattern matches
Starts(pat, s) == {q \in 1..Len(s) : Match(pat, s, q).ok}

\* the first of the positions S at or after i, 0 when there is none
NextStart(S, i) == MinOrZero({q \in S : q >= i})

\* position of the first match, 0 when there is none
Search(pat, s) == MinOrZero(Starts(pat, s))

\* the digit group of match m of s
GroupOf(s, m) == SubSeq(s, m.gs, m.ge - 1)

\* the digit group of the first match (match.group(k) of re.search)
Group(pat, s) == GroupOf(s, Match(pat, s, Search(pat, s)))

\* start positions of the successive non-overlapping matches
RECURSIVE FindAllFrom(_, _, _, _)
FindAllNext(pat, s, S, q) ==
    IF q = 0 THEN <<>>
    ELSE <<q>> \o FindAllFrom(pat, s, S, Match(pat, s, q).end)

FindAllFrom(pat, s, S, i) == FindAllNext(pat, s, S, NextStart(S, i))

FindAll(pat, s) == FindAllFrom(pat, s, Starts(pat, s), 1)

\* the text a match is replaced by.  whole = TRUE: the template is a fixed
\* text; whole = FALSE: the template is \g<1> text \g<3>, which keeps what
\* the match holds before and after its digit group.
Expand(s, i, m, whole, text) ==
    IF whole THEN text
    ELSE SubSeq(s, i, m.gs - 1) \o text \o SubSeq(s, m.ge, m.end - 1)

\* re.sub from position i: q is the next match (0: none), what lies before
\* it is copied
RECURSIVE SubFrom(_, _, _, _, _, _)
SubNext(pat, whole, text, s, S, i, q) ==
    IF q = 0 THEN SubSeq(s, i, Len(s))
    ELSE SubSeq(s, i, q - 1)
         \o Expand(s, q, Match(pat, s, q), whole, text)
         \o SubFrom(pat, whole, text, s, S, Match(pat, s, q).end)

SubFrom(pat, whole, text, s, S, i) ==
    SubNext(pat, whole, text, s, S, i, NextStart(S, i))

Sub(pat, whole, text, s) == SubFrom(pat, whole, text, s, Starts(pat, s), 1)

\* the number of replacements re.sub / re.subn performs
RECURSIVE SubCountFrom(_, _, _, _)
SubCountNext(pat, s, S, q) ==
    IF q = 0 THEN 0 ELSE 1 + SubCountFrom(pat, s, S, Match(pat, s, q).end)

SubCountFrom(pat, s, S, i) == SubCountNext(pat, s, S, NextStart(S, i))

SubCount(pat, s) == SubCountFrom(pat, s, Starts(pat, s), 1)

(***************************************************************************)
(* The file system: disk maps the paths of the existing files to their     *)
(* contents.  A path is a sequence of components.  open() of a missing     *)
(* file raises FileNotFoundError; open() of an existing file may raise     *)
(* another OSError (io = "rfail" for reading, "wfail" for writing), in     *)
(* which case the file is left as it is.                                   *)
(***************************************************************************)
IoOutcomes == {"ok", "rfail", "wfail"}

Name(path) == path[Len(path)]

\* the characters of the file names of the model
Chars(name) ==
    CASE name = "index.html" ->
           <<"i", "n", "d", "e", "x", ".", "h", "t", "m", "l">>
      [] name = "sw.js" -> <<"s", "w", ".", "j", "s">>
      [] name = "style.css" -> <<"s", "t", "y", "l", "e", ".", "c", "s", "s">>
      [] name = "ignored.html" ->
           <<"i", "g", "n", "o", "r", "e", "d", ".", "h", "t", "m", "l">>
      [] name = "notes.txt" -> <<"n", "o", "t", "e", "s", ".", "t", "x", "t">>
      [] name = "app.js" -> <<"a", "p", "p", ".", "j", "s">>

EndsWith(s, suffix) ==
    /\ Len(s) >= Len(suffix)
    /\ SubSeq(s, Len(s) - Len(suffix) + 1, Len(s)) = suffix

(***************************************************************************)
(* bump-version.py                                                         *)
(***************************************************************************)
files_to_update == << <<"index.html">>, <<"sw.js">> >>
sw_path == <<"sw.js">>

\* lines 45-54 of increment_cache_version
IncrementedFrom(content, old_version_num) ==
    [content |-> Sub(CacheNamePattern, FALSE, StrOf(old_version_num + 1),
                     content),
     old |-> <<"v">> \o StrOf(old_version_num),
     new |-> <<"v">> \o StrOf(old_version_num + 1)]

\* increment_cache_version(content): (new content, old version, new version)
increment_cache_version(content) ==
    IF Search(CacheNamePattern, content) = 0
    THEN [content |-> content, old |-> None, new |-> None]
    ELSE IncrementedFrom(content, IntOf(Group(CacheNamePattern, content)))

\* a variant of the ?v= branches whose replacement drops the ?v= prefix
SubnQueryWithoutPrefix(content, old_version, new_version) ==
    [new_content |-> Sub(QueryPattern, TRUE, new_version, content),
     count |-> SubCount(QueryPattern, content),
     replaced |-> SubCount(QueryPattern, content),
     old_version |-> IF old_version = None
                        /\ Search(QueryPattern, content) # 0
                     THEN Group(QueryPattern, content)
                     ELSE old_version]

\* the ?v= branches of update_version_in_file: re.search for the old
\* version, then re.subn
SubnQuery(content, old_version, new_version) ==
    [new_content |-> Sub(QueryPattern, TRUE, QV \o new_version, content),
     count |-> SubCount(QueryPattern, content),
     replaced |-> SubCount(QueryPattern, content),
     old_version |-> IF old_version = None
                        /\ Search(QueryPattern, content) # 0
                     THEN Group(QueryPattern, content)
                     ELSE old_version]

\* a variant of the VERSION constant branch that takes the old version from
\* the last VERSION constant
SubVersionConstLast(content, old_version, new_version) ==
    [new_content |-> Sub(VersionConstPattern, FALSE, new_version, content),
     count |-> 1,
     replaced |-> SubCount(VersionConstPattern, content),
     old_version |-> IF old_version = None
                     THEN GroupOf(content,
                              Match(VersionConstPattern, content,
                                    FindAll(VersionConstPattern, content)
                                        [SubCount(VersionConstPattern,
                                                  content)]))
                     ELSE old_version]

\* the VERSION constant branch of update_version_in_file: re.sub replaces
\* every match and count is set to 1
SubVersionConst(content, old_version, new_version) ==
    [new_content |-> Sub(VersionConstPattern, FALSE, new_version, content),
     count |-> 1,
     replaced |-> SubCount(VersionConstPattern, content),
     old_version |-> IF old_version = None
                     THEN Group(VersionConstPattern, content)
                     ELSE old_version]

\* a variant of update_version_in_file without its except clauses
ExceptReturnRaising(d, faulted) ==
    [disk |-> d, count |-> 0, found |-> None, replaced |-> 0,
     faulted |-> faulted, raised |-> TRUE]

\* what the except clauses of update_version_in_file return
ExceptReturn(d, faulted) ==
    [disk |-> d, count |-> 0, found |-> None, replaced |-> 0,
     faulted |-> faulted, raised |-> FALSE]

\* lines 108-112 of update_version_in_file: r is what lines 76-106 computed.
\* replaced is the number of replacements in the content written (0 when
\* nothing is written).
WriteIfChanged(d, file_path, io, r) ==
    IF r.count > 0
    THEN IF io = "wfail" THEN ExceptReturn(d, TRUE)
         ELSE [disk |-> [d EXCEPT ![file_path] = r.new_content],
               count |-> r.count, found |-> r.old_version,
               replaced |-> r.replaced,
               faulted |-> FALSE, raised |-> FALSE]
    ELSE [disk |-> d, count |-> r.count, found |-> r.old_version,
          replaced |-> 0, faulted |-> FALSE, raised |-> FALSE]

\* update_version_in_file(file_path, old_version, new_version) on disk d
update_version_in_file(d, file_path, old_version, new_version, io) ==
    IF file_path \notin DOMAIN d THEN ExceptReturn(d, FALSE)
    ELSE IF io = "rfail" THEN ExceptReturn(d, TRUE)
    ELSE WriteIfChanged(d, file_path, io,
            IF Name(file_path) = "sw.js"
               /\ Search(VersionConstPattern, d[file_path]) # 0
            THEN SubVersionConst(d[file_path], old_version, new_version)
            ELSE SubnQuery(d[file_path], old_version, new_version))

(***************************************************************************)
(* update_versions.py                                                      *)
(***************************************************************************)
EXTENSIONS ==
    << <<".", "h", "t", "m", "l">>, <<".", "j", "s">>,
       <<".", "c", "s", "s">>, <<".", "m", "d">> >>
EXCLUDE_DIRS ==
    <<".git", "node_modules", "__pycache__", ".venv", "venv", "lib">>

\* should_process_file(filepath): the path ends with an accepted extension
should_process_file(filepath) ==
    \E k \in DOMAIN EXTENSIONS :
        EndsWith(Chars(Name(filepath)), EXTENSIONS[k])

\* should_exclude_dir(dirpath): some component of the path is excluded
should_exclude_dir(dirpath) ==
    \E k \in DOMAIN EXCLUDE_DIRS :
        \E j \in DOMAIN dirpath : dirpath[j] = EXCLUDE_DIRS[k]

\* a variant of lines 63-85 that writes in a dry run too
UpdateMatchesIgnoringDryRun(d, filepath, new_version, dry_run, io, matches) ==
    IF matches = <<>>
    THEN [disk |-> d, ret |-> 0, replaced |-> 0, faulted |-> FALSE]
    ELSE IF io = "wfail"
    THEN [disk |-> d, ret |-> 0, replaced |-> 0, faulted |-> TRUE]
    ELSE [disk |-> [d EXCEPT ![filepath] =
                      Sub(VERSION_PATTERN, TRUE, QV \o new_version,
                          d[filepath])],
          ret |-> Len(matches),
          replaced |-> SubCount(VERSION_PATTERN, d[filepath]),
          faulted |-> FALSE]

\* lines 63-85 of update_versions_in_file: matches is what findall found
UpdateMatches(d, filepath, new_version, dry_run, io, matches) ==
    IF matches = <<>>
    THEN [disk |-> d, ret |-> 0, replaced |-> 0, faulted |-> FALSE]
    ELSE IF dry_run
    THEN [disk |-> d, ret |-> Len(matches), replaced |-> 0,
          faulted |-> FALSE]
    ELSE IF io = "wfail"
    THEN [disk |-> d, ret |-> 0, replaced |-> 0, faulted |-> TRUE]
    ELSE [disk |-> [d EXCEPT ![filepath] =
                      Sub(VERSION_PATTERN, TRUE, QV \o new_version,
                          d[filepath])],
          ret |-> Len(matches),
          replaced |-> SubCount(VERSION_PATTERN, d[filepath]),
          faulted |-> FALSE]

\* update_versions_in_file(filepath, new_version, dry_run) on disk d
update_versions_in_file(d, filepath, new_version, dry_run, io) ==
    IF filepath \notin DOMAIN d \/ io = "rfail"
    THEN [disk |-> d, ret |-> 0, replaced |-> 0,
          faulted |-> filepath \in DOMAIN d]
    ELSE UpdateMatches(d, filepath, new_version, dry_run, io,
                       FindAll(VERSION_PATTERN, d[filepath]))

\* the template of update_sw_cache_version's re.sub
SwCacheTemplate(new_version) ==
    CacheNameLit \o <<" ", "=", " ", "'">> \o PaddleLit \o StrOf(new_version)
    \o <<"'">>

\* lines 102-125 of update_sw_cache_version
SwCacheReplace(d, filepath, dry_run, io, current_version) ==
    IF dry_run
    THEN [disk |-> d, ret |-> TRUE, faulted |-> FALSE]
    ELSE IF io = "wfail"
    THEN [disk |-> d, ret |-> FALSE, faulted |-> TRUE]
    ELSE [disk |-> [d EXCEPT ![filepath] =
                      Sub(SW_CACHE_PATTERN, TRUE,
                          SwCacheTemplate(current_version + 1), d[filepath])],
          ret |-> TRUE, faulted |-> FALSE]

\* update_sw_cache_version(filepath, dry_run) on disk d
update_sw_cache_version(d, filepath, dry_run, io) ==
    IF filepath \notin DOMAIN d \/ io = "rfail"
    THEN [disk |-> d, ret |-> FALSE, faulted |-> filepath \in DOMAIN d]
    ELSE IF Search(SW_CACHE_PATTERN, d[filepath]) = 0
    THEN [disk |-> d, ret |-> FALSE, faulted |-> FALSE]
    ELSE SwCacheReplace(d, filepath, dry_run, io,
                        IntOf(Group(SW_CACHE_PATTERN, d[filepath])))

\* the entries of directory dirpath, as os.walk lists them
IsUnder(path, dirpath) ==
    /\ Len(path) > Len(dirpath)
    /\ SubSeq(path, 1, Len(dirpath)) = dirpath

FileNames(d, dirpath) ==
    {p[Len(p)] : p \in {q \in DOMAIN d :
                          IsUnder(q, dirpath) /\ Len(q) = Len(dirpath) + 1}}

DirNames(d, dirpath) ==
    {p[Len(dirpath) + 1] : p \in {q \in DOMAIN d :
                          IsUnder(q, dirpath) /\ Len(q) > Len(dirpath) + 1}}

\* a set of names as a list, in one fixed listing order
RECURSIVE Listing(_)
Listing(S) ==
    IF S = {} THEN <<>>
    ELSE LET x == CHOOSE y \in S : TRUE IN <<x>> \o Listing(S \ {x})

\* dirnames[:] = [d for d in dirnames if not should_exclude_dir(join(..))]
KeptDirs(d, dirpath) ==
    SelectSeq(Listing(DirNames(d, dirpath)),
              LAMBDA n : ~should_exclude_dir(dirpath \o <<n>>))

RECURSIVE Paths(_, _)
Paths(dirpath, names) ==
    IF names = <<>> THEN <<>>
    ELSE <<dirpath \o <<names[1]>>>> \o Paths(dirpath, Tail(names))

(***************************************************************************)
(* Inputs: file contents are concatenations of at most MaxPieces pieces.   *)
(***************************************************************************)
RECURSIVE Concats(_, _)
Concats(P, n) ==
    IF n = 0 THEN {<<>>}
    ELSE LET prev == Concats(P, n - 1)
         IN  prev \cup {c \o q : c \in prev, q \in P}

Missing == <<"Missing">>

\* two old timestamps
TsA == <<"2", "0", "2", "5", "1", "1", "2", "1", "1", "0", "5", "9", "0", "4">>
TsB == <<"2", "0", "2", "4", "0", "1", "0", "1", "0", "0", "0", "0", "0", "0">>

\* a variant of generate_version() whose format lacks the seconds' last digit
generate_version_short(k) ==
    <<"2", "0", "2", "6", "0", "3", "0", "1", "1", "2", "0", "0">>
    \o StrOf(k % 10)

\* generate_version(): strftime("%Y%m%d%H%M%S") of the clock, which here
\* shows a later second at every run
generate_version(k) ==
    <<"2", "0", "2", "6", "0", "3", "0", "1", "1", "2", "0", "0", "0">>
    \o StrOf(k % 10)

\* pieces of index.html: a marker, a bare ?v=, 14 digits, a digit, a quote
HtmlPieces == {QV \o TsA, QV, TsB, <<"7">>, <<"\"">>}
\* pieces of bump-version's sw.js: VERSION constants, cache names, a marker
VersionConstA == ConstVersionLit \o <<"'">> \o TsA \o <<"'", ";">>
VersionConstB == ConstVersionLit \o <<"\"">> \o TsB \o <<"\"", ";">>
CacheName7 == ConstCacheLit \o <<"'">> \o PadelLit \o <<"7">> \o <<"'", ";">>
CacheName09 ==
    ConstCacheLit \o <<"\"">> \o PadelLit \o <<"0", "9">> \o <<"\"", ";">>
SwPieces ==
    {VersionConstA, VersionConstB, CacheName7, CacheName09, QV \o TsB}
\* pieces of update_versions' files: a quoted marker, a bare ?v=, a letter,
\* a quote, two cache names
Marker1 == QV \o <<"1", "\"">>
SwCache7 ==
    CacheNameLit \o <<" ", "=", " ", "'">> \o PaddleLit \o <<"7", "'">>
SwCache12 ==
    CacheNameLit \o <<"=", "\"">> \o PaddleLit \o <<"1", "2", "\"">>
ScanPieces == {Marker1, QV, <<"a">>, <<"\"">>, SwCache7, SwCache12}

\* the disk holding the entries <<path, content>> whose content is not Missing
MkDisk(entries) ==
    LET present == {e \in entries : e[2] # Missing}
    IN  [q \in {e[1] : e \in present} |->
            (CHOOSE e \in present : e[1] = q)[2]]

\* bump-version: one of the two files varies over all contents while the
\* other is absent, without any match, or with one
BumpDisks ==
    {MkDisk({<<files_to_update[1], h>>, <<files_to_update[2], w>>}) :
        <<h, w>> \in
            (Concats(HtmlPieces, MaxPieces)
                \X {Missing, CacheName7, VersionConstA \o CacheName7})
            \cup ({Missing, <<"x">>, QV \o TsB}
                \X Concats(SwPieces, MaxPieces))}

Roots == {<<".">>, <<"site">>, <<"lib", "site">>}

\* update_versions: a rich sw.js beside one page, or a tree of pages,
\* stylesheets, excluded directories and other files
ScanTrees ==
    {{<<<<"sw.js">>, c>>, <<<<"a", "index.html">>, Marker1>>} :
        c \in Concats(ScanPieces, MaxPieces)}
    \cup
    {{<<<<"sw.js">>, w>>, <<<<"a", "index.html">>, h>>,
      <<<<"a", "style.css">>, <<"a">>>>,
      <<<<"a", ".git", "ignored.html">>, g>>,
      <<<<"a", "notes.txt">>, n>>,
      <<<<"lib", "app.js">>, l>>} :
        w \in {Missing, SwCache7 \o Marker1}, h \in {<<"a">>, Marker1},
        g \in {Missing, Marker1}, n \in {Missing, Marker1},
        l \in {Missing, Marker1}}

ScanDisks(r) ==
    {MkDisk({<<r \o e[1], e[2]>> : e \in t}) : t \in ScanTrees}

(***************************************************************************)
(* State.                                                                  *)
(***************************************************************************)
VARIABLES
    script,             \* "bump" (bump-version.py) or "scan" (update_versions.py)
    root,               \* --dir of update_versions.py
    dry_run,            \* --dry-run of update_versions.py
    disk,               \* the files
    pc,                 \* position in main / update_versions
    runs,               \* completed runs
    faults,             \* I/O errors raised so far
    new_version,
    old_version, total_changes, files_changed, cache_version_info, idx,
    todo,               \* directories os.walk has still to visit
    files,              \* files of the current directory still to process
    total_files, total_updates,
    disk0,              \* history: the files before the first run
    orig,               \* history: the files when the current run started
    prev,               \* history: the files before the latest step
    calls               \* history: the rewrite calls of the current run

vars == <<script, root, dry_run, disk, pc, runs, faults, new_version,
          old_version, total_changes, files_changed, cache_version_info,
          idx, todo, files, total_files, total_updates, disk0, orig, prev,
          calls>>

config == <<script, root, dry_run, disk0>>
bump_locals ==
    <<old_version, total_changes, files_changed, cache_version_info, idx>>
scan_locals == <<todo, files, total_files, total_updates>>

Init ==
    /\ \/ /\ script = "bump"
          /\ root = <<>>
          /\ dry_run = FALSE
          /\ disk \in BumpDisks
       \/ /\ script = "scan"
          /\ root \in Roots
          /\ dry_run \in BOOLEAN
          /\ disk \in ScanDisks(root)
    /\ pc = "idle"
    /\ runs = 0
    /\ faults = 0
    /\ new_version = None
    /\ old_version = None
    /\ total_changes = 0
    /\ files_changed = <<>>
    /\ cache_version_info = None
    /\ idx = 1
    /\ todo = <<>>
    /\ files = <<>>
    /\ total_files = 0
    /\ total_updates = 0
    /\ disk0 = disk
    /\ orig = disk
    /\ prev = disk
    /\ calls = <<>>

(***************************************************************************)
(* bump-version.py main()                                                  *)
(***************************************************************************)
\* lines 122-139: the run starts
MainStart ==
    /\ script = "bump"
    /\ pc \in {"idle", "done"}
    /\ runs < MaxRuns
    /\ new_version' = generate_version(runs)
    /\ old_version' = None
    /\ total_changes' = 0
    /\ files_changed' = <<>>
    /\ cache_version_info' = None
    /\ idx' = 1
    /\ orig' = disk
    /\ prev' = disk
    /\ calls' = <<>>
    /\ pc' = "loop"
    /\ UNCHANGED <<config, disk, runs, faults, scan_locals>>

\* lines 149-151: the first version found is the "old" version displayed
FirstFound(old, count, found_version) ==
    IF count > 0 /\ old = None /\ found_version # None
    THEN found_version ELSE old

\* lines 142-151: one iteration of the loop over files_to_update
MainFile ==
    /\ script = "bump"
    /\ pc = "loop"
    /\ \E io \in IoOutcomes :
         \E r \in {update_version_in_file(disk, files_to_update[idx],
                                          old_version, new_version, io)} :
             /\ io # "ok" => r.faulted /\ faults < MaxFaults
             /\ disk' = r.disk
             /\ faults' = IF r.faulted THEN faults + 1 ELSE faults
             /\ total_changes' =
                    IF r.count > 0 THEN total_changes + r.count
                    ELSE total_changes
             /\ files_changed' =
                    IF r.count > 0
                    THEN Append(files_changed,
                                <<Name(files_to_update[idx]), r.count>>)
                    ELSE files_changed
             /\ old_version' = FirstFound(old_version, r.count, r.found)
             /\ calls' = Append(calls, [step |-> "version",
                                        path |-> files_to_update[idx],
                                        io |-> io, count |-> r.count,
                                        replaced |-> r.replaced])
             /\ prev' = disk
             /\ idx' = idx + 1
             /\ pc' = IF r.raised THEN "crashed"
                      ELSE IF idx = Len(files_to_update) THEN "cache"
                      ELSE "loop"
    /\ UNCHANGED <<config, runs, new_version, cache_version_info,
                   scan_locals, orig>>

\* lines 159-164: r is what increment_cache_version returned
WriteCache(d, io, r) ==
    IF r.old # None /\ r.new # None
    THEN IF io = "wfail"
         THEN [disk |-> d, info |-> None, faulted |-> TRUE]
         ELSE [disk |-> [d EXCEPT ![sw_path] = r.content],
               info |-> <<r.old, r.new>>, faulted |-> FALSE]
    ELSE [disk |-> d, info |-> None, faulted |-> FALSE]

\* a variant of the cache-name step that works on the content sw.js had
\* when the run started
IncrementCacheStepStale(d, io) ==
    IF sw_path \notin DOMAIN d
    THEN [disk |-> d, info |-> None, faulted |-> FALSE]
    ELSE IF io = "rfail"
    THEN [disk |-> d, info |-> None, faulted |-> TRUE]
    ELSE WriteCache(d, io, increment_cache_version(orig[sw_path]))

\* lines 153-167: the cache-name step on disk d
IncrementCacheStep(d, io) ==
    IF sw_path \notin DOMAIN d
    THEN [disk |-> d, info |-> None, faulted |-> FALSE]
    ELSE IF io = "rfail"
    THEN [disk |-> d, info |-> None, faulted |-> TRUE]
    ELSE WriteCache(d, io, increment_cache_version(d[sw_path]))

\* lines 153-184: the cache-name step and the summary
MainCache ==
    /\ script = "bump"
    /\ pc = "cache"
    /\ \E io \in IoOutcomes :
         \E r \in {IncrementCacheStep(disk, io)} :
             /\ io # "ok" => r.faulted /\ faults < MaxFaults
             /\ disk' = r.disk
             /\ faults' = IF r.faulted THEN faults + 1 ELSE faults
             /\ cache_version_info' = r.info
             /\ calls' = Append(calls, [step |-> "cache", path |-> sw_path,
                                        io |-> io, count |-> 0,
                                        replaced |-> 0])
             /\ prev' = disk
    /\ pc' = "done"
    /\ runs' = runs + 1
    /\ UNCHANGED <<config, new_version, old_version, total_changes,
                   files_changed, idx, scan_locals, orig>>

(***************************************************************************)
(* update_versions.py update_versions(root_dir, dry_run)                   *)
(***************************************************************************)
\* lines 128-137: the run starts, os.walk starts at the root
ScanStart ==
    /\ script = "scan"
    /\ pc \in {"idle", "done"}
    /\ runs < MaxRuns
    /\ new_version' = generate_version(runs)
    /\ total_files' = 0
    /\ total_updates' = 0
    /\ todo' = <<root>>
    /\ files' = <<>>
    /\ orig' = disk
    /\ prev' = disk
    /\ calls' = <<>>
    /\ pc' = "walk"
    /\ UNCHANGED <<config, disk, runs, faults, bump_locals>>

\* lines 137-139: os.walk yields the next directory and its subdirectories
\* are pruned
ScanDir ==
    /\ script = "scan"
    /\ pc = "walk"
    /\ files = <<>>
    /\ todo # <<>>
    /\ LET dirpath == Head(todo)
       IN  /\ todo' = Paths(dirpath, KeptDirs(disk, dirpath)) \o Tail(todo)
           /\ files' = Paths(dirpath, Listing(FileNames(disk, dirpath)))
    /\ UNCHANGED <<config, disk, pc, runs, faults, new_version, bump_locals,
                   total_files, total_updates, orig, prev, calls>>

\* lines 141-148: one file of the current directory
ScanFile ==
    /\ script = "scan"
    /\ pc = "walk"
    /\ files # <<>>
    /\ IF should_process_file(Head(files))
       THEN \E io \in IoOutcomes :
              \E r \in {update_versions_in_file(disk, Head(files),
                                                new_version, dry_run, io)} :
                  /\ io # "ok" => r.faulted /\ faults < MaxFaults
                  /\ disk' = r.disk
                  /\ faults' = IF r.faulted THEN faults + 1 ELSE faults
                  /\ total_files' =
                        IF r.ret > 0 THEN total_files + 1 ELSE total_files
                  /\ total_updates' =
                        IF r.ret > 0 THEN total_updates + r.ret
                        ELSE total_updates
                  /\ calls' = Append(calls,
                                [step |-> "version", path |-> Head(files),
                                 io |-> io, count |-> r.ret,
                                 replaced |-> r.replaced])
                  /\ prev' = disk
       ELSE UNCHANGED <<disk, faults, total_files, total_updates, calls,
                        prev>>
    /\ files' = Tail(files)
    /\ UNCHANGED <<config, pc, runs, new_version, bump_locals, todo, orig>>

\* lines 150-161: the cache-name step and the summary
ScanCache ==
    /\ script = "scan"
    /\ pc = "walk"
    /\ files = <<>>
    /\ todo = <<>>
    /\ IF root \o <<"sw.js">> \in DOMAIN disk
       THEN \E io \in IoOutcomes :
              \E r \in {update_sw_cache_version(disk, root \o <<"sw.js">>,
                                                dry_run, io)} :
                  /\ io # "ok" => r.faulted /\ faults < MaxFaults
                  /\ disk' = r.disk
                  /\ faults' = IF r.faulted THEN faults + 1 ELSE faults
                  /\ calls' = Append(calls,
                                [step |-> "cache",
                                 path |-> root \o <<"sw.js">>, io |-> io,
                                 count |-> 0, replaced |-> 0])
                  /\ prev' = disk
       ELSE UNCHANGED <<disk, faults, calls, prev>>
    /\ pc' = "done"
    /\ runs' = runs + 1
    /\ UNCHANGED <<config, new_version, bump_locals, scan_locals, orig>>

Next ==
    \/ MainStart
    \/ MainFile
    \/ MainCache
    \/ ScanStart
    \/ ScanDir
    \/ ScanFile
    \/ ScanCache

Spec == Init /\ [][Next]_vars
(***************************************************************************)
(* Notions the properties are stated with.                                 *)
(***************************************************************************)
Last(seq) == seq[Len(seq)]

\* the texts of the successive matches of a pattern
MatchTexts(pat, s) ==
    LET f == FindAll(pat, s)
    IN  [k \in 1..Len(f) |-> SubSeq(s, f[k], Match(pat, s, f[k]).end - 1)]

\* the texts before, between and after the successive matches
Gaps(pat, s) ==
    LET f == FindAll(pat, s)
        n == Len(f)
    IN  [k \in 1..(n + 1) |->
            SubSeq(s, IF k = 1 THEN 1 ELSE Match(pat, s, f[k - 1]).end,
                      IF k = n + 1 THEN Len(s) ELSE f[k] - 1)]

\* the digit groups of the successive matches
Groups(pat, s) ==
    LET f == FindAll(pat, s)
    IN  [k \in 1..Len(f) |-> GroupOf(s, Match(pat, s, f[k]))]

\* the texts before, between and after the digit groups of the matches
GroupGaps(pat, s) ==
    LET f == FindAll(pat, s)
        n == Len(f)
    IN  [k \in 1..(n + 1) |->
            SubSeq(s, IF k = 1 THEN 1 ELSE Match(pat, s, f[k - 1]).ge,
                      IF k = n + 1 THEN Len(s)
                      ELSE Match(pat, s, f[k]).gs - 1)]

\* the integers the cache-name markers hold
Ints(pat, s) ==
    LET g == Groups(pat, s) IN [k \in DOMAIN g |-> IntOf(g[k])]

RECURSIVE SumCounts(_)
SumCounts(cs) ==
    IF cs = <<>> THEN 0
    ELSE (IF Head(cs).step = "version" THEN Head(cs).count ELSE 0)
         + SumCounts(Tail(cs))

\* the service-worker file, the cache-name pattern and the version-marker
\* pattern of the script that runs
SwFile == IF script = "bump" THEN sw_path ELSE root \o <<"sw.js">>
CachePattern ==
    IF script = "bump" THEN CacheNamePattern ELSE SW_CACHE_PATTERN
MarkerPattern == IF script = "bump" THEN QueryPattern ELSE VERSION_PATTERN

\* bump-version rewrites this content of this file by its VERSION constant
ConstBranch(path, content) ==
    /\ script = "bump"
    /\ Name(path) = "sw.js"
    /\ Search(VersionConstPattern, content) # 0

\* the latest step was a rewrite of a file that went through: prev holds
\* the file before it and disk after it
JustRewritten ==
    /\ pc \in {"loop", "cache", "walk"}
    /\ ~dry_run
    /\ calls # <<>>
    /\ Last(calls).step = "version"
    /\ Last(calls).io = "ok"
    /\ Last(calls).path \in DOMAIN prev

\* every match of the marker pattern, and nothing else, was replaced by
\* ?v=<v>
ExactRewrite(pat, before, after, v) ==
    /\ Len(FindAll(pat, after)) = Len(FindAll(pat, before))
    /\ \A k \in DOMAIN MatchTexts(pat, after) :
          MatchTexts(pat, after)[k] = QV \o v
    /\ Gaps(pat, after) = Gaps(pat, before)

\* the digits of every VERSION constant, and nothing else, were replaced
ExactConstRewrite(before, after, v) ==
    /\ Len(FindAll(VersionConstPattern, after))
          = Len(FindAll(VersionConstPattern, before))
    /\ \A k \in DOMAIN Groups(VersionConstPattern, after) :
          Groups(VersionConstPattern, after)[k] = v
    /\ GroupGaps(VersionConstPattern, after)
          = GroupGaps(VersionConstPattern, before)

(***************************************************************************)
(* C1.  A dry run of update_versions leaves every file as it was: neither  *)
(* update_versions_in_file nor update_sw_cache_version writes.             *)
(***************************************************************************)
C1_DryRunNeverWrites == (script = "scan" /\ dry_run) => disk = disk0

\* a dry run that counted markers and found the cache name has ended
C1_Witness ==
    /\ script = "scan"
    /\ dry_run
    /\ pc = "done"
    /\ total_updates > 0
    /\ calls # <<>>
    /\ Last(calls).step = "cache"
    /\ Search(SW_CACHE_PATTERN, disk[SwFile]) # 0

(***************************************************************************)
(* C2 as stated.  A rewrite of a file replaces each of the N matches of    *)
(* the version-marker pattern by ?v=<new version> and leaves every other   *)
(* character as it was, in both scripts and for sw.js too.                 *)
(***************************************************************************)
C2_Original ==
    JustRewritten =>
        ExactRewrite(MarkerPattern, prev[Last(calls).path],
                     disk[Last(calls).path], new_version)

(***************************************************************************)
(* C2 amended.  The same, except where bump-version rewrites an sw.js that *)
(* holds a VERSION constant: there the 14 digits of every VERSION constant *)
(* become the new version and every other character, the ?v= markers       *)
(* included, stays as it was.                                              *)
(***************************************************************************)
C2_Amended ==
    JustRewritten =>
        IF ConstBranch(Last(calls).path, prev[Last(calls).path])
        THEN /\ ExactConstRewrite(prev[Last(calls).path],
                                  disk[Last(calls).path], new_version)
             /\ MatchTexts(QueryPattern, disk[Last(calls).path])
                   = MatchTexts(QueryPattern, prev[Last(calls).path])
        ELSE ExactRewrite(MarkerPattern, prev[Last(calls).path],
                          disk[Last(calls).path], new_version)

\* a file with two markers or more has been rewritten
C2_Witness ==
    /\ JustRewritten
    /\ ~ConstBranch(Last(calls).path, prev[Last(calls).path])
    /\ Len(FindAll(MarkerPattern, prev[Last(calls).path])) >= 2
    /\ disk[Last(calls).path] # prev[Last(calls).path]

(***************************************************************************)
(* C3 as stated.  When the service-worker content holds the cache-name     *)
(* assignment, the cache-name step of either script changes nothing but    *)
(* the integer suffix of the literal: prefix, quote characters, whitespace *)
(* around = and the rest of the statement stay as they were.               *)
(***************************************************************************)
CacheStepDone ==
    /\ pc = "done"
    /\ ~dry_run
    /\ calls # <<>>
    /\ Last(calls).step = "cache"
    /\ Last(calls).io = "ok"
    /\ SwFile \in DOMAIN prev
    /\ Search(CachePattern, prev[SwFile]) # 0

C3_Original ==
    CacheStepDone =>
        GroupGaps(CachePattern, disk[SwFile])
            = GroupGaps(CachePattern, prev[SwFile])

(***************************************************************************)
(* C4 as stated.  After k runs without dry run every cache-name marker of  *)
(* the service-worker file holds the integer it held at first plus k.      *)
(***************************************************************************)
C4_Original ==
    (pc = "done" /\ ~dry_run /\ faults = 0 /\ SwFile \in DOMAIN disk0) =>
        Ints(CachePattern, disk[SwFile])
            = [k \in DOMAIN Ints(CachePattern, disk0[SwFile]) |->
                  Ints(CachePattern, disk0[SwFile])[k] + runs]

(***************************************************************************)
(* C5.  A failure on one file (it is missing, or reading or writing it     *)
(* raises) never aborts the run.  The failing call counts zero changes,    *)
(* the totals are those of the other calls, every file the walk or the     *)
(* list of targets holds is still handed to the rewrite, and every file    *)
(* without failure ends as the rewrite of its own content alone.           *)
(***************************************************************************)
\* what a run of bump-version makes of this content of this file
BumpOutcome(path, content, v) ==
    IF Name(path) = "sw.js"
    THEN increment_cache_version(
             IF Search(VersionConstPattern, content) # 0
             THEN Sub(VersionConstPattern, FALSE, v, content)
             ELSE Sub(QueryPattern, TRUE, QV \o v, content)).content
    ELSE Sub(QueryPattern, TRUE, QV \o v, content)

\* what a run of update_versions makes of this content of this file
ScanOutcome(path, content, v) ==
    LET c == Sub(VERSION_PATTERN, TRUE, QV \o v, content)
    IN  IF path = SwFile /\ Search(SW_CACHE_PATTERN, c) # 0
        THEN Sub(SW_CACHE_PATTERN, TRUE,
                 SwCacheTemplate(IntOf(Group(SW_CACHE_PATTERN, c)) + 1), c)
        ELSE c

\* the files os.walk hands to the rewrite: accepted extension, below no
\* directory that should_exclude_dir excludes
Walked ==
    {q \in DOMAIN orig :
        /\ IsUnder(q, root)
        /\ should_process_file(q)
        /\ \A j \in (Len(root) + 1)..(Len(q) - 1) :
              ~should_exclude_dir(SubSeq(q, 1, j))}

FailedIn(path) ==
    \E k \in DOMAIN calls : calls[k].path = path /\ calls[k].io # "ok"

VersionCalls == {k \in DOMAIN calls : calls[k].step = "version"}

C5_FailureNeverAborts ==
    /\ pc # "crashed"
    /\ \A k \in DOMAIN calls :
          (calls[k].io # "ok" \/ calls[k].path \notin DOMAIN orig)
              => calls[k].count = 0
    /\ (script = "bump" /\ pc = "done") =>
          /\ {calls[k].path : k \in VersionCalls}
                = {files_to_update[k] : k \in DOMAIN files_to_update}
          /\ total_changes = SumCounts(calls)
          /\ \A q \in DOMAIN disk :
                ~FailedIn(q) => disk[q] = BumpOutcome(q, orig[q], new_version)
    /\ (script = "scan" /\ pc = "done" /\ ~dry_run) =>
          /\ {calls[k].path : k \in VersionCalls} = Walked
          /\ total_updates = SumCounts(calls)
          /\ \A q \in Walked :
                ~FailedIn(q) => disk[q] = ScanOutcome(q, orig[q], new_version)

\* sw.js is missing and bump-version's main has rewritten index.html and
\* reached the summary
C5_Witness ==
    /\ script = "bump"
    /\ pc = "done"
    /\ sw_path \notin DOMAIN disk
    /\ total_changes > 0
    /\ disk[files_to_update[1]] # orig[files_to_update[1]]

(***************************************************************************)
(* C6 as stated.  Whatever the path of the root, a scan hands to the       *)
(* rewrite exactly the files with an accepted extension that lie under the *)
(* root outside every subtree whose directory name is excluded, and the    *)
(* reported number of files modified is the number of those that hold a    *)
(* marker.                                                                 *)
(***************************************************************************)
Qualifying ==
    {q \in DOMAIN orig :
        /\ IsUnder(q, root)
        /\ should_process_file(q)
        /\ \A j \in (Len(root) + 1)..(Len(q) - 1) :
              \A k \in DOMAIN EXCLUDE_DIRS : q[j] # EXCLUDE_DIRS[k]}

C6_Original ==
    (script = "scan" /\ pc = "done") =>
        /\ {calls[k].path : k \in VersionCalls} = Qualifying
        /\ faults = 0 =>
              total_files =
                  Cardinality({q \in Qualifying :
                                 Search(VERSION_PATTERN, orig[q]) # 0})

(***************************************************************************)
(* C7 as stated.  After one run and after two runs every rewritten file    *)
(* holds as many version markers as it held at first, and every one of     *)
(* them carries the version of the latest run.                             *)
(***************************************************************************)
\* the files the latest run handed to the rewrite and that exist
Rewritten == {calls[k].path : k \in VersionCalls} \cap DOMAIN disk0

RunsEnded == pc = "done" /\ ~dry_run /\ faults = 0

MarkersCarry(pat, before, after, v) ==
    /\ Len(FindAll(pat, after)) = Len(FindAll(pat, before))
    /\ \A k \in DOMAIN MatchTexts(pat, after) :
          MatchTexts(pat, after)[k] = QV \o v

C7_Original ==
    RunsEnded =>
        \A q \in Rewritten :
            MarkersCarry(MarkerPattern, disk0[q], disk[q], new_version)

(***************************************************************************)
(* C7 amended.  The same, except where bump-version rewrites an sw.js that *)
(* holds a VERSION constant: there the VERSION constants are the markers   *)
(* rewritten, as many after each run as at first and each holding the      *)
(* version of the latest run, while the ?v= markers of that file stay as   *)
(* they were.                                                              *)
(***************************************************************************)
C7_Amended ==
    RunsEnded =>
        \A q \in Rewritten :
            IF ConstBranch(q, disk0[q])
            THEN /\ Len(FindAll(VersionConstPattern, disk[q]))
                       = Len(FindAll(VersionConstPattern, disk0[q]))
                 /\ \A k \in DOMAIN Groups(VersionConstPattern, disk[q]) :
                       Groups(VersionConstPattern, disk[q])[k] = new_version
                 /\ MatchTexts(QueryPattern, disk[q])
                       = MatchTexts(QueryPattern, disk0[q])
            ELSE MarkersCarry(MarkerPattern, disk0[q], disk[q], new_version)

\* a file with a marker has been rewritten by two runs
C7_Witness ==
    /\ RunsEnded
    /\ runs = 2
    /\ \E q \in Rewritten :
          /\ ~ConstBranch(q, disk0[q])
          /\ Len(FindAll(MarkerPattern, disk0[q])) >= 1
          /\ disk[q] # disk0[q]

(***************************************************************************)
(* C8 as stated.  The old version of bump-version's summary is the value   *)
(* of the first ?v= match of the first file, index.html then sw.js, that   *)
(* holds any, and it is set whenever total_changes > 0.                    *)
(***************************************************************************)
\* the targets, in processing order, whose content at the start of the run
\* holds a match of their pattern
Holding(pats) ==
    {k \in DOMAIN files_to_update :
        /\ files_to_update[k] \in DOMAIN orig
        /\ Search(pats[k], orig[files_to_update[k]]) # 0}

FirstValue(pats, ks) ==
    IF ks = {} THEN None
    ELSE Group(pats[MinOrZero(ks)], orig[files_to_update[MinOrZero(ks)]])

QueryPatterns == [k \in DOMAIN files_to_update |-> QueryPattern]

C8_Original ==
    (script = "bump" /\ pc = "done") =>
        /\ old_version = FirstValue(QueryPatterns, Holding(QueryPatterns))
        /\ total_changes > 0 => old_version # None

(***************************************************************************)
(* C8 amended.  At every point of bump-version's main the old version is   *)
(* the value of the first match in the first file, in processing order,    *)
(* whose rewrite went through with at least one replacement, where the     *)
(* matches of an sw.js holding a VERSION constant are its VERSION          *)
(* constants; a file that is missing or whose read or write failed is      *)
(* passed over.  Once set it is kept, and it is set whenever               *)
(* total_changes > 0.                                                      *)
(***************************************************************************)
EffectivePatterns ==
    [k \in DOMAIN files_to_update |->
        IF files_to_update[k] \in DOMAIN orig
           /\ ConstBranch(files_to_update[k], orig[files_to_update[k]])
        THEN VersionConstPattern ELSE QueryPattern]

\* the targets whose rewrite went through with at least one replacement
Changed ==
    {k \in DOMAIN files_to_update :
        \E c \in VersionCalls :
            calls[c].path = files_to_update[k] /\ calls[c].count > 0}

C8_Amended ==
    (script = "bump" /\ pc \in {"loop", "cache", "done"}) =>
        /\ old_version = FirstValue(EffectivePatterns, Changed)
        /\ total_changes > 0 <=> Changed # {}
        /\ total_changes > 0 => old_version # None

\* both files were rewritten and hold different versions
C8_Witness ==
    /\ script = "bump"
    /\ pc = "done"
    /\ Changed = DOMAIN files_to_update
    /\ FirstValue(EffectivePatterns, {2}) # FirstValue(EffectivePatterns, {1})
    /\ old_version = FirstValue(EffectivePatterns, {1})

(***************************************************************************)
(* C9 as stated.  The count a rewrite returns is the number of             *)
(* replacements made in the content it wrote, in bump-version's sw.js      *)
(* branch too, and the total of the summary is the sum of these counts.    *)
(***************************************************************************)
C9_Original ==
    ~dry_run =>
        /\ \A k \in VersionCalls : calls[k].count = calls[k].replaced
        /\ pc = "done" =>
              SumCounts(calls)
                  = IF script = "bump" THEN total_changes ELSE total_updates

(***************************************************************************)
(* C10.  When both steps of a run write sw.js, the cache-name step works   *)
(* on what the version rewrite wrote: at the end the markers the rewrite   *)
(* wrote are all there with the new version, and the cache name holds the  *)
(* integer it held plus one.                                               *)
(***************************************************************************)
\* the version rewrite of this run wrote sw.js
SwRewritten ==
    \E k \in VersionCalls :
        /\ calls[k].path = SwFile
        /\ calls[k].io = "ok"
        /\ calls[k].count > 0

SwMarkers(content) ==
    IF ConstBranch(SwFile, content)
    THEN Groups(VersionConstPattern, content)
    ELSE MatchTexts(MarkerPattern, content)

C10_CacheStepKeepsRewrite ==
    (CacheStepDone /\ SwRewritten) =>
        /\ Len(SwMarkers(disk[SwFile])) = Len(SwMarkers(orig[SwFile]))
        /\ \A k \in DOMAIN SwMarkers(disk[SwFile]) :
              SwMarkers(disk[SwFile])[k]
                  = IF ConstBranch(SwFile, orig[SwFile])
                    THEN new_version ELSE QV \o new_version
        /\ Ints(CachePattern, disk[SwFile])[1]
              = Ints(CachePattern, prev[SwFile])[1] + 1
        /\ disk[SwFile] # orig[SwFile]

\* both steps have written an sw.js that held a marker and a cache name
C10_Witness ==
    /\ CacheStepDone
    /\ SwRewritten
    /\ Search(CachePattern, orig[SwFile]) # 0
    /\ Len(SwMarkers(orig[SwFile])) >= 1
    /\ disk[SwFile] # prev[SwFile]
    /\ prev[SwFile] # orig[SwFile]

=============================================================================
